---- MODULE Spec2Model ----
(***************************************************************************)
(* Model of src/network.rs: the process-wide issuance cache (ISSUANCE),    *)
(* the CurrencyToVoteHandler conversions that read it, and the chain query *)
(* facade.                                                                 *)
(*                                                                         *)
(* Integer widths are scaled: a u64 is WordBits bits wide and a u128 is     *)
(* 2 * WordBits bits wide, so that u64::max_value() is 2^WordBits - 1 and   *)
(* every boundary of the arithmetic (narrowing, overflow, the divisor of    *)
(* factor()) keeps its place relative to the word size.                     *)
(***************************************************************************)
EXTENDS Integers, Naturals, Sequences, FiniteSets, TLC

\* ------------------------------------------------------------------ bounds
WordBits == 9
MaxSets == 2
MaxGets == 2

U64Max == 2^WordBits - 1
U64Mod == 2^WordBits
U128Max == 2^(2 * WordBits) - 1
U128Mod == 2^(2 * WordBits)

Hash == {"h1", "h2"}
Refreshers == {"r1", "r2"}
Readers == {"g1", "g2"}
NoOne == "none"
Halves == {"lo", "hi"}

\* ------------------------------------------------------- remote chain state
\* What the node stores under Balances/TotalIssuance at a point: nothing,
\* bytes that do not decode as a Balance, or an encoded Balance.
Absent == [tag |-> "absent"]
Malformed == [tag |-> "malformed"]
Encoded(v) == [tag |-> "bytes", val |-> v]
TransportErr == [tag |-> "transport_error"]

IssuanceOnChain == {2 * U64Max - 1}
StoredIssuance == {Absent, Malformed} \cup {Encoded(v) : v \in IssuanceOnChain}

VARIABLES
    chain,       \* Hash -> what is stored under Balances/TotalIssuance there
    cell,        \* ISSUANCE: the two words of the Balance and the borrow state
    holder,      \* which refresher holds the mutable borrow (NoOne: none)
    rpc, rat, rval, rstored,   \* issuance::set tasks
    gpc, gbuf, gret, gseen,    \* issuance::get callers
    gok,         \* whether the value a get returned is one the cache held during it
    committed,   \* value written by the issuance::set that returned last
    lastAt,      \* `at` of the most recently completed issuance::set
    lastFetched, \* result of the most recently completed total-issuance query
    overlapped,  \* whether some issuance::set was called while another was running
    nsets, ngets, \* calls of issuance::set and issuance::get made so far
    overflowChecks,      \* whether the build traps arithmetic overflow
    primed,              \* whether a refresh has completed (conversion runs)
    cop, cx, cret,       \* the last conversion: which, its argument, its result
    fpc, fop, fsent, fresp, fret \* a facade query: position, call, requests
                          \* sent, response received, result

cacheVars == <<chain, cell, holder, rpc, rat, rval, rstored, gpc, gbuf, gret,
               gseen, gok, committed, lastAt, lastFetched, overlapped, nsets, ngets>>

convVars == <<overflowChecks, primed, cop, cx, cret>>

facadeVars == <<fpc, fop, fsent, fresp, fret>>

vars == <<cacheVars, convVars, facadeVars>>

\* ------------------------------------------------------------- the cell
Lo(v) == v % U64Mod
Hi(v) == v \div U64Mod
CellValue(c) == c.hi * U64Mod + c.lo

\* AtomicRefCell::borrow succeeds unless the cell is mutably borrowed.
CanBorrow(c, h) == h = NoOne
\* AtomicRefCell::borrow_mut succeeds only when the cell is not borrowed at all.
CanBorrowMut(c, h) == h = NoOne /\ c.readers = 0

\* storage::read: absence is None, a transport failure or bytes that do not
\* decode are fatal, anything else is the decoded value.
StorageRead(resp) ==
    CASE resp.tag = "absent" -> [tag |-> "none"]
      [] resp.tag = "bytes" -> [tag |-> "some", val |-> resp.val]
      [] OTHER -> [tag |-> "panic"]

\* Mutant of UnwrapOrZero: a different default for an absent total issuance.
UnwrapOrOne(opt) == IF opt.tag = "some" THEN opt.val ELSE 1

\* get_total_issuance: maybe_total_issuance.unwrap_or(0)
UnwrapOrZero(opt) == IF opt.tag = "some" THEN opt.val ELSE 0

\* The responses the node can give to a state read at `at`.
RemoteResponses(at) == {chain[at], TransportErr}

CellInit ==
    /\ cell = [lo |-> 0, hi |-> 0, readers |-> 0]
    /\ holder = NoOne
    /\ rpc = [r \in Refreshers |-> "idle"]
    /\ rat = [r \in Refreshers |-> NoOne]
    /\ rval = [r \in Refreshers |-> 0]
    /\ rstored = [r \in Refreshers |-> {}]
    /\ gpc = [g \in Readers |-> "idle"]
    /\ gbuf = [g \in Readers |-> [lo |-> 0, hi |-> 0, got |-> {}]]
    /\ gret = [g \in Readers |-> 0]
    /\ gseen = [g \in Readers |-> {}]
    /\ gok = [g \in Readers |-> TRUE]
    /\ committed = 0
    /\ lastAt = NoOne
    /\ lastFetched = [by |-> NoOne, val |-> 0]
    /\ overlapped = FALSE
    /\ nsets = 0
    /\ ngets = 0

\* ------------------------------------------------------- issuance::set
\* Mutant of SetCall: the exclusive borrow is taken before the query is
\* awaited and so is held across the round trip.
SetCallBorrowFirst(r, at) ==
    /\ rpc[r] = "idle"
    /\ nsets < MaxSets
    /\ nsets' = nsets + 1
    /\ rat' = [rat EXCEPT ![r] = at]
    /\ IF CanBorrowMut(cell, holder)
       THEN /\ holder' = r
            /\ rpc' = [rpc EXCEPT ![r] = "awaiting"]
       ELSE /\ rpc' = [rpc EXCEPT ![r] = "panicked"]
            /\ UNCHANGED holder
    /\ UNCHANGED <<chain, cell, rval, rstored, gpc, gbuf, gret, gseen, gok,
                   committed, lastAt, lastFetched, overlapped, ngets>>
    /\ UNCHANGED <<convVars, facadeVars>>

\* line 28: the task issues the total-issuance query and suspends.
SetCall(r, at) ==
    /\ rpc[r] = "idle"
    /\ nsets < MaxSets
    /\ nsets' = nsets + 1
    /\ rpc' = [rpc EXCEPT ![r] = "awaiting"]
    /\ rat' = [rat EXCEPT ![r] = at]
    /\ overlapped' = (overlapped \/ \E o \in Refreshers \ {r} :
                                      rpc[o] \in {"awaiting", "fetched", "writing"})
    /\ UNCHANGED <<chain, cell, holder, rval, rstored, gpc, gbuf, gret, gseen, gok,
                   committed, lastAt, lastFetched, ngets>>
    /\ UNCHANGED <<convVars, facadeVars>>

\* lines 28, 183-192: the round trip ends; the task resumes with the value,
\* or aborts when the read is fatal.
SetQueryReturns(r) ==
    /\ rpc[r] = "awaiting"
    /\ \E resp \in RemoteResponses(rat[r]) :
         LET out == StorageRead(resp) IN
         IF out.tag = "panic"
         THEN /\ rpc' = [rpc EXCEPT ![r] = "panicked"]
              /\ rat' = [rat EXCEPT ![r] = NoOne]
              /\ UNCHANGED <<rval, lastFetched>>
         ELSE /\ rpc' = [rpc EXCEPT ![r] = "fetched"]
              /\ rval' = [rval EXCEPT ![r] = UnwrapOrZero(out)]
              /\ lastFetched' = [by |-> r, val |-> UnwrapOrZero(out)]
              /\ UNCHANGED rat
    /\ UNCHANGED <<chain, cell, holder, rstored, gpc, gbuf, gret, gseen, gok,
                   committed, lastAt, overlapped, nsets, ngets>>
    /\ UNCHANGED <<convVars, facadeVars>>

\* line 29: ISSUANCE.borrow_mut(); panics when the cell is borrowed.
SetBorrowMut(r) ==
    /\ rpc[r] = "fetched"
    /\ IF CanBorrowMut(cell, holder)
       THEN /\ holder' = r
            /\ rpc' = [rpc EXCEPT ![r] = "writing"]
            /\ rstored' = [rstored EXCEPT ![r] = {}]
            /\ UNCHANGED <<rat, rval>>
       ELSE /\ rpc' = [rpc EXCEPT ![r] = "panicked"]
            /\ rat' = [rat EXCEPT ![r] = NoOne]
            /\ rval' = [rval EXCEPT ![r] = 0]
            /\ UNCHANGED <<holder, rstored>>
    /\ UNCHANGED <<chain, cell, gpc, gbuf, gret, gseen, gok, committed,
                   lastAt, lastFetched, overlapped, nsets, ngets>>
    /\ UNCHANGED <<convVars, facadeVars>>

\* line 29: the assignment through the guard, one machine word at a time.
SetStore(r, half) ==
    /\ rpc[r] = "writing"
    /\ half \notin rstored[r]
    /\ cell' = IF half = "lo" THEN [cell EXCEPT !.lo = Lo(rval[r])]
                              ELSE [cell EXCEPT !.hi = Hi(rval[r])]
    /\ rstored' = [rstored EXCEPT ![r] = @ \cup {half}]
    /\ UNCHANGED <<chain, holder, rpc, rat, rval, gpc, gbuf, gret, gseen, gok,
                   committed, lastAt, lastFetched, overlapped, nsets, ngets>>
    /\ UNCHANGED <<convVars, facadeVars>>

\* line 29-30: the guard is dropped at the end of the statement and set returns.
SetRelease(r) ==
    /\ rpc[r] = "writing"
    /\ rstored[r] = Halves
    /\ holder' = NoOne
    /\ rpc' = [rpc EXCEPT ![r] = "idle"]
    /\ rval' = [rval EXCEPT ![r] = 0]
    /\ rstored' = [rstored EXCEPT ![r] = {}]
    /\ committed' = rval[r]
    /\ lastAt' = rat[r]
    /\ gseen' = [g \in Readers |->
                   IF gpc[g] \in {"called", "borrowed"}
                   THEN gseen[g] \cup {rval[r]} ELSE gseen[g]]
    /\ rat' = [rat EXCEPT ![r] = NoOne]
    /\ UNCHANGED <<chain, cell, gpc, gbuf, gret, gok, lastFetched, overlapped,
                   nsets, ngets>>
    /\ UNCHANGED <<convVars, facadeVars>>

\* ------------------------------------------------------- issuance::get
\* line 21: a caller enters get().
GetCall(g) ==
    /\ gpc[g] \in {"idle", "returned"}
    /\ ngets < MaxGets
    /\ ngets' = ngets + 1
    /\ gpc' = [gpc EXCEPT ![g] = "called"]
    /\ gseen' = [gseen EXCEPT ![g] = {committed}]
    /\ gbuf' = [gbuf EXCEPT ![g] = [lo |-> 0, hi |-> 0, got |-> {}]]
    /\ gret' = [gret EXCEPT ![g] = 0]
    /\ gok' = [gok EXCEPT ![g] = TRUE]
    /\ UNCHANGED <<chain, cell, holder, rpc, rat, rval, rstored,
                   committed, lastAt, lastFetched, overlapped, nsets>>
    /\ UNCHANGED <<convVars, facadeVars>>

\* line 22: ISSUANCE.borrow(); panics when the cell is mutably borrowed.
GetBorrow(g) ==
    /\ gpc[g] = "called"
    /\ IF CanBorrow(cell, holder)
       THEN /\ cell' = [cell EXCEPT !.readers = @ + 1]
            /\ gpc' = [gpc EXCEPT ![g] = "borrowed"]
            /\ UNCHANGED gseen
       ELSE /\ gpc' = [gpc EXCEPT ![g] = "panicked"]
            /\ gseen' = [gseen EXCEPT ![g] = {}]
            /\ UNCHANGED cell
    /\ UNCHANGED <<chain, holder, rpc, rat, rval, rstored, gbuf, gret, gok,
                   committed, lastAt, lastFetched, overlapped, nsets, ngets>>
    /\ UNCHANGED <<convVars, facadeVars>>

\* line 22: clone() copies the Balance out, one machine word at a time.
GetLoad(g, half) ==
    /\ gpc[g] = "borrowed"
    /\ half \notin gbuf[g].got
    /\ gbuf' = [gbuf EXCEPT ![g] =
                  IF half = "lo"
                  THEN [@ EXCEPT !.lo = cell.lo, !.got = @ \cup {half}]
                  ELSE [@ EXCEPT !.hi = cell.hi, !.got = @ \cup {half}]]
    /\ UNCHANGED <<chain, cell, holder, rpc, rat, rval, rstored, gpc, gret,
                   gseen, gok, committed, lastAt, lastFetched, overlapped, nsets, ngets>>
    /\ UNCHANGED <<convVars, facadeVars>>

\* line 22-23: the shared guard is dropped and get returns the copy.
GetReturn(g) ==
    /\ gpc[g] = "borrowed"
    /\ gbuf[g].got = Halves
    /\ cell' = [cell EXCEPT !.readers = @ - 1]
    /\ gret' = [gret EXCEPT ![g] = CellValue(gbuf[g])]
    /\ gok' = [gok EXCEPT ![g] = CellValue(gbuf[g]) \in gseen[g]]
    /\ gseen' = [gseen EXCEPT ![g] = {}]
    /\ gbuf' = [gbuf EXCEPT ![g] = [lo |-> 0, hi |-> 0, got |-> {}]]
    /\ gpc' = [gpc EXCEPT ![g] = "returned"]
    /\ UNCHANGED <<chain, holder, rpc, rat, rval, rstored,
                   committed, lastAt, lastFetched, overlapped, nsets, ngets>>
    /\ UNCHANGED <<convVars, facadeVars>>

\* ------------------------------------------------- CurrencyToVoteHandler
NoResult == [tag |-> "none"]
Panicked == [tag |-> "panic"]

Max(a, b) == IF a >= b THEN a ELSE b

\* Mutant of AsU64: a saturating conversion instead of the narrowing cast.
AsU64Saturating(v) == IF v > U64Max THEN U64Max ELSE v

\* `as u64`: the narrowing cast keeps the low word.
AsU64(v) == v % U64Mod

\* Mutant of Factor: the floor of 1 is missing.
FactorNoFloor(issuance) == issuance \div U64Max

\* Mutant of Factor: the divisor is 2^64 instead of u64::max_value().
FactorPow2(issuance) == Max(issuance \div U64Mod, 1)

\* CurrencyToVoteHandler::factor, given what issuance::get() returned.
Factor(issuance) == Max(issuance \div U64Max, 1)

Returned(v, f) == [tag |-> "ok", val |-> v, factor |-> f]

\* Convert<u128, u64>::convert: (x / Self::factor()) as u64. A zero divisor
\* is a panic ("attempt to divide by zero").
ForwardResult(x, issuance) ==
    LET f == Factor(issuance) IN
    IF f = 0 THEN Panicked ELSE Returned(AsU64(x \div f), f)

\* Convert<u128, u128>::convert: x * Self::factor() in u128. An overflowing
\* product panics in a build with overflow checks and wraps in one without.
InverseResult(x, issuance, checks) ==
    LET f == Factor(issuance)
        p == x * f
    IN  IF p > U128Max
        THEN IF checks THEN Panicked ELSE Returned(p % U128Mod, f)
        ELSE Returned(p, f)

\* Balances at and around the word boundaries.
BalanceVals ==
    {0, 1, 500, U64Max - 1, U64Max, U64Mod, U64Mod + 1, 2 * U64Max - 1,
     2 * U64Max, 2 * U64Mod, 3 * U64Max, 3 * U64Max + 2, U64Max * U64Max,
     U128Max - 1, U128Max}

\* Chains of the conversion runs: any boundary issuance at h1, nothing at h2.
ConvChains == {[h \in Hash |-> IF h = "h1" THEN Encoded(v) ELSE Absent] :
                 v \in BalanceVals}

taskVars == <<holder, rpc, rat, rval, rstored, gpc, gbuf, gret, gseen, gok,
              committed, lastAt, lastFetched, overlapped, nsets, ngets>>

ConvIdle ==
    /\ primed = FALSE
    /\ cop = "none"
    /\ cx = 0
    /\ cret = NoResult

\* issuance::set run from call to return with no other access to the cell in
\* between: the query, then the write through the exclusive borrow.
IssuanceSetAlone(at) ==
    /\ CanBorrowMut(cell, holder)
    /\ LET out == StorageRead(chain[at]) IN
       IF out.tag = "panic"
       THEN UNCHANGED <<cell, primed>>
       ELSE /\ cell' = [cell EXCEPT !.lo = Lo(UnwrapOrZero(out)),
                                    !.hi = Hi(UnwrapOrZero(out))]
            /\ primed' = TRUE
    /\ cop' = "none"
    /\ cx' = 0
    /\ cret' = NoResult
    /\ UNCHANGED <<chain, taskVars, overflowChecks, facadeVars>>

\* lines 40-44, with the factor() and issuance::get() calls it makes.
ConvertForward(x) ==
    /\ cop' = "forward"
    /\ cx' = x
    /\ cret' = IF CanBorrow(cell, holder)
               THEN ForwardResult(x, CellValue(cell)) ELSE Panicked
    /\ UNCHANGED <<chain, cell, taskVars, overflowChecks, primed, facadeVars>>

\* lines 46-50, with the factor() and issuance::get() calls it makes.
ConvertInverse(x) ==
    /\ cop' = "inverse"
    /\ cx' = x
    /\ cret' = IF CanBorrow(cell, holder)
               THEN InverseResult(x, CellValue(cell), overflowChecks)
               ELSE Panicked
    /\ UNCHANGED <<chain, cell, taskVars, overflowChecks, primed, facadeVars>>

\* ------------------------------------------------------ chain query facade
MaxNameLen == 2

Args == {"a1", "a2"}

\* Bytes a stored name can hold: an ASCII letter, the lead and the
\* continuation byte of a two-byte character, and a byte no UTF-8 text holds.
\* (Three- and four-byte lead bytes are outside this alphabet.)
ByteAlphabet == {65, 195, 169, 255}

RECURSIVE SeqsUpTo(_, _)
SeqsUpTo(S, n) ==
    IF n = 0 THEN {<<>>}
    ELSE LET shorter == SeqsUpTo(S, n - 1) IN
         shorter \cup {Append(q, b) : q \in shorter, b \in S}

NameBytes == SeqsUpTo(ByteAlphabet, MaxNameLen)

\* String::from_utf8: the code points of the text, or an error.
RECURSIVE FromUtf8(_)
FromUtf8(b) ==
    IF b = <<>> THEN [ok |-> TRUE, chars |-> <<>>]
    ELSE IF b[1] < 128
    THEN LET rest == FromUtf8(Tail(b)) IN
         [ok |-> rest.ok, chars |-> <<b[1]>> \o rest.chars]
    ELSE IF b[1] \in 194..223 /\ Len(b) >= 2 /\ b[2] \in 128..191
    THEN LET rest == FromUtf8(SubSeq(b, 3, Len(b))) IN
         [ok |-> rest.ok,
          chars |-> <<(b[1] - 192) * 64 + (b[2] - 128)>> \o rest.chars]
    ELSE [ok |-> FALSE, chars |-> <<>>]

\* The literals of lines 67, 86 and 89, as code points.
NO_NICK == <<91, 78, 79, 95, 78, 73, 67, 75, 93>>
NO_IDENT == <<78, 79, 95, 73, 68, 69, 78, 84>>
OPAQUE_IDENTITY == <<79, 80, 65, 81, 85, 69, 95, 73, 68, 69, 78, 84, 73, 84, 89>>

Str(chars) == [kind |-> "string", chars |-> chars]
NoneV == [kind |-> "none"]
SomeV(v) == [kind |-> "some", val |-> v]
Ok(v) == [tag |-> "ok", val |-> v]

\* storage::value_key and storage::map_key, kept symbolic.
ValueKey(module, item) ==
    [module |-> module, item |-> item, hasher |-> "none", lookup |-> "none"]
MapKey(hasher, module, item, lookup) ==
    [module |-> module, item |-> item, hasher |-> hasher, lookup |-> lookup]

StorageOps == {"get_nick", "get_identity", "get_events_at",
               "get_account_data_at"}
RpcOps == {"get_head", "get_block", "get_runtime_version", "get_metadata",
           "query_info", "got_storage_size"}
FacadeOps == StorageOps \cup RpcOps

\* The one read storage::read issues for a key at a point.
StateRead(key, at) == [method |-> "state_read", key |-> key, at |-> at]
RpcRequest(method, params) == [method |-> method, params |-> params]

\* The request each facade operation sends.
FacadeRequest(op, arg, at) ==
    CASE op = "get_nick" ->
           StateRead(MapKey("Twox64Concat", "Nicks", "NameOf", arg), at)
      [] op = "get_identity" ->
           StateRead(MapKey("Twox64Concat", "Identity", "IdentityOf", arg), at)
      [] op = "get_events_at" -> StateRead(ValueKey("System", "Events"), at)
      [] op = "get_account_data_at" ->
           StateRead(MapKey("Blake2_128Concat", "System", "Account", arg), at)
      [] op = "get_head" -> RpcRequest("chain_getFinalizedHead", <<>>)
      [] op = "get_block" -> RpcRequest("chain_getBlock", <<at>>)
      [] op = "get_runtime_version" ->
           RpcRequest("state_getRuntimeVersion", <<at>>)
      [] op = "get_metadata" -> RpcRequest("state_getMetadata", <<at>>)
      [] op = "query_info" -> RpcRequest("payment_queryInfo", <<arg, at>>)
      [] op = "got_storage_size" ->
           RpcRequest("state_getStorageSize", <<arg, at>>)

\* Values the node can hold or return, by type.
Nicks == {[name |-> n, deposit |-> 10] : n \in NameBytes}
DataVariants == {[variant |-> "None"], [variant |-> "BlakeTwo256"],
                 [variant |-> "Sha256"]}
                \cup {[variant |-> "Raw", bytes |-> n] : n \in NameBytes}
Registrations == {[display |-> d] : d \in DataVariants}
AccountInfos == {[kind |-> "account", nonce |-> 0, free |-> 0],
                 [kind |-> "account", nonce |-> 3, free |-> 500]}
EventLogs == {<<>>, <<"e1">>}
RawHeads == {[raw |-> "hash", hash |-> h] : h \in Hash}
            \cup {[raw |-> "garbage"]}
Payloads == {"v1", "v2"}
Sizes == {0, 7}

\* What a state read can come back with, for each storage query.
StoredValues(op) ==
    CASE op = "get_nick" -> Nicks
      [] op = "get_identity" -> Registrations
      [] op = "get_events_at" -> EventLogs
      [] op = "get_account_data_at" -> AccountInfos
StorageResponses(op) ==
    {Absent, Malformed, TransportErr} \cup {Encoded(v) : v \in StoredValues(op)}

\* What client.request can come back with: Err, Ok(None) or Ok(Some(value)).
RpcErr == [tag |-> "err"]
RpcOk(opt) == [tag |-> "ok", data |-> opt]
RpcValues(op) ==
    CASE op = "get_head" -> RawHeads
      [] op = "got_storage_size" -> Sizes
      [] OTHER -> Payloads
RpcResponses(op) ==
    {RpcErr, RpcOk(NoneV)} \cup {RpcOk(SomeV(v)) : v \in RpcValues(op)}

Responses(op) ==
    IF op \in StorageOps THEN StorageResponses(op) ELSE RpcResponses(op)

\* lines 56-69
GetNick(nick) ==
    IF nick.tag = "panic" THEN Panicked
    ELSE IF nick.tag = "some"
    THEN LET text == FromUtf8(nick.val.name) IN
         IF text.ok THEN Ok(Str(text.chars)) ELSE Panicked
    ELSE Ok(Str(NO_NICK))

\* Mutant of GetIdentity: the catch-all arm returns the other sentinel.
GetIdentityOneSentinel(maybe_identity) ==
    IF maybe_identity.tag = "panic" THEN Panicked
    ELSE IF maybe_identity.tag = "some"
    THEN LET display == maybe_identity.val.display IN
         IF display.variant = "Raw"
         THEN LET text == FromUtf8(display.bytes) IN
              IF text.ok THEN Ok(Str(text.chars)) ELSE Panicked
         ELSE Ok(Str(NO_IDENT))
    ELSE Ok(Str(NO_IDENT))

\* lines 71-91
GetIdentity(maybe_identity) ==
    IF maybe_identity.tag = "panic" THEN Panicked
    ELSE IF maybe_identity.tag = "some"
    THEN LET display == maybe_identity.val.display IN
         IF display.variant = "Raw"
         THEN LET text == FromUtf8(display.bytes) IN
              IF text.ok THEN Ok(Str(text.chars)) ELSE Panicked
         ELSE Ok(Str(OPAQUE_IDENTITY))
    ELSE Ok(Str(NO_IDENT))

\* lines 160-166
GetEventsAt(events) ==
    IF events.tag = "panic" THEN Panicked
    ELSE IF events.tag = "some" THEN Ok(SomeV(events.val)) ELSE Ok(NoneV)

\* Mutant of GetAccountDataAt: a zeroed record stands in for an absent one.
GetAccountDataAtOrDefault(info) ==
    IF info.tag = "some" THEN Ok(info.val)
    ELSE IF info.tag = "none"
    THEN Ok([kind |-> "account", nonce |-> 0, free |-> 0])
    ELSE Panicked

\* lines 168-180
GetAccountDataAt(info) ==
    IF info.tag = "some" THEN Ok(info.val) ELSE Panicked

\* lines 94-101
GetHead(resp) ==
    IF resp.tag = "err" THEN Panicked
    ELSE IF resp.data.kind = "none" THEN Panicked
    ELSE IF resp.data.val.raw = "hash"
    THEN Ok([kind |-> "hash", hash |-> resp.data.val.hash])
    ELSE Panicked

\* Mutant of UnwrapRpc: an absent response is handed on instead of unwrapped.
UnwrapRpcLenient(resp) ==
    IF resp.tag = "err" THEN Panicked
    ELSE IF resp.data.kind = "none" THEN Ok(NoneV)
    ELSE Ok([kind |-> "value", val |-> resp.data.val])

\* lines 104-149: request(..).await.expect(..) then data.unwrap()
UnwrapRpc(resp) ==
    IF resp.tag = "err" THEN Panicked
    ELSE IF resp.data.kind = "none" THEN Panicked
    ELSE Ok([kind |-> "value", val |-> resp.data.val])

\* lines 151-158: request(..).await.unwrap(), the Option handed on as it is
GotStorageSize(resp) ==
    IF resp.tag = "err" THEN Panicked ELSE Ok(resp.data)

FacadeOutcome(op, resp) ==
    CASE op = "get_nick" -> GetNick(StorageRead(resp))
      [] op = "get_identity" -> GetIdentity(StorageRead(resp))
      [] op = "get_events_at" -> GetEventsAt(StorageRead(resp))
      [] op = "get_account_data_at" -> GetAccountDataAt(StorageRead(resp))
      [] op = "get_head" -> GetHead(resp)
      [] op = "got_storage_size" -> GotStorageSize(resp)
      [] OTHER -> UnwrapRpc(resp)

FacadeIdle ==
    /\ fpc = "idle"
    /\ fop = [op |-> "none", arg |-> "none", at |-> "none"]
    /\ fsent = <<>>
    /\ fresp = NoResult
    /\ fret = NoResult

\* A task calls a facade operation: it sends its request and suspends.
FacadeCall(op, arg, at) ==
    /\ fpc \in {"idle", "returned", "panicked"}
    /\ fpc' = "awaiting"
    /\ fop' = [op |-> op, arg |-> arg, at |-> at]
    /\ fsent' = <<FacadeRequest(op, arg, at)>>
    /\ fresp' = NoResult
    /\ fret' = NoResult
    /\ UNCHANGED <<cacheVars, convVars>>

\* The round trip ends and the operation runs to its return or its panic.
FacadeResume(resp) ==
    /\ fpc = "awaiting"
    /\ LET out == FacadeOutcome(fop.op, resp) IN
       /\ fret' = out
       /\ fresp' = resp
       /\ fpc' = IF out.tag = "panic" THEN "panicked" ELSE "returned"
    /\ UNCHANGED <<cacheVars, convVars, fop, fsent>>

\* ------------------------------------------------------------ properties
\* The total issuance the node holds at a point, 0 when the key is absent.
IssuanceAt(at) == IF chain[at].tag = "bytes" THEN chain[at].val ELSE 0

NoWriter == \A r \in Refreshers : rpc[r] # "writing"

\* C1: whenever the cell is not mutably borrowed (the only states in which
\* its value can be read) it holds 0 if no issuance::set has returned yet and
\* otherwise the total issuance stored at the `at` of the issuance::set that
\* returned last, 0 when that key is absent; calls of get never change it.
C1_CacheIsLastRefresh ==
    holder = NoOne =>
        CellValue(cell) = IF lastAt = NoOne THEN 0 ELSE IssuanceAt(lastAt)

\* C1 witness: a refresh has returned with a stored non-zero issuance, a get
\* has returned since, and the cell holds that issuance.
C1_Witness ==
    /\ lastAt # NoOne
    /\ chain[lastAt].tag = "bytes"
    /\ holder = NoOne
    /\ CellValue(cell) = chain[lastAt].val
    /\ CellValue(cell) # 0
    /\ \E g \in Readers : gpc[g] = "returned" /\ gret[g] = CellValue(cell)

\* C4 (as claimed): every call of get completes, a completed call returns a
\* value the cache held before or after a refresh that overlapped it, and a
\* writer holds the cell alone.
C4_EveryReadCompletes ==
    /\ \A g \in Readers : gpc[g] # "panicked"
    /\ \A g \in Readers : gpc[g] = "returned" => gok[g]
    /\ holder # NoOne => cell.readers = 0

\* C10 (as claimed): a refresh suspended on its query does not hold the cell,
\* and once overlapping refreshes have all returned the cache holds the value
\* of the query that completed last.
C10_LastQueryWins ==
    /\ \A r \in Refreshers : rpc[r] = "awaiting" => holder # r
    /\ (overlapped /\ \A r \in Refreshers : rpc[r] = "idle")
          => CellValue(cell) = lastFetched.val

C10_State ==
    /\ \A r \in Refreshers : rpc[r] \in {"idle", "awaiting", "fetched"}
                                => holder # r
    /\ NoWriter => holder = NoOne /\ CellValue(cell) = committed

C10_Step ==
    /\ \A r \in Refreshers :
         (holder # r /\ holder' = r) => rpc[r] = "fetched"
    /\ \A r \in Refreshers :
         (rpc[r] # "panicked" /\ rpc'[r] = "panicked")
            => cell' = cell /\ holder' = holder /\ committed' = committed
    /\ \A r \in Refreshers :
         (rpc[r] = "writing" /\ rpc'[r] = "idle") => committed' = rval[r]
    /\ committed' # committed
         => \E r \in Refreshers : rpc[r] = "writing" /\ rpc'[r] = "idle"

\* C10 (amended): issuance::set takes the exclusive borrow only after its query
\* has returned; a refresh that is suspended, or that aborts on a failed query
\* or on a cell already borrowed, leaves the cache as it was; and whenever no
\* refresh is writing the cache holds the value of the refresh that wrote
\* last, whichever query completed last.
C10_LastWriterWins == []C10_State /\ [][C10_Step]_vars

\* C10 witness: two refreshes overlapped and both returned, and the cache
\* holds the value of the one that wrote last, not of the query that
\* completed last.
C10_Witness ==
    /\ overlapped
    /\ \A r \in Refreshers : rpc[r] = "idle"
    /\ CellValue(cell) = committed
    /\ committed # lastFetched.val

\* The conversion just made, if it returned.
Converted(op) == cop = op /\ cret.tag = "ok"

\* C2: factor() is at least 1 whatever the cache holds, so the forward
\* conversion never panics on a zero divisor; while the cache holds 0 the
\* factor is 1 and the forward conversion returns every input that fits its
\* 64-bit result unchanged (500 gives 500).
C2_FactorAtLeastOne ==
    /\ cop = "forward" => cret.tag = "ok"
    /\ Converted("forward") \/ Converted("inverse") => cret.factor >= 1
    /\ (Converted("forward") /\ CellValue(cell) = 0)
          => cret.factor = 1 /\ (cx <= U64Max => cret.val = cx)

\* C2 witness: the cache still holds its initial 0 and 500 converted to 500.
C2_Witness ==
    /\ ~primed
    /\ CellValue(cell) = 0
    /\ Converted("forward")
    /\ cx = 500
    /\ cret.val = 500
    /\ cret.factor = 1

\* C3 (as claimed): factor() is max(1, issuance / 2^64); the forward
\* conversion is value / factor() in its 64-bit result and the inverse is
\* value * factor() in its 128-bit result.
C3_FactorDividesByPow2 ==
    /\ Converted("forward") \/ Converted("inverse")
          => cret.factor = Max(1, CellValue(cell) \div U64Mod)
    /\ Converted("forward") => cret.val = (cx \div cret.factor) % U64Mod
    /\ Converted("inverse") => cret.val = (cx * cret.factor) % U128Mod

\* f is the largest multiple count of u64::max_value() in i, and at least 1.
IsFactorOf(f, i) ==
    /\ f >= 1
    /\ f * U64Max <= Max(i, U64Max)
    /\ i < (f + 1) * U64Max

\* C3 (amended): factor() is max(1, issuance / u64::max_value()), the divisor
\* being 2^64 - 1; the forward conversion is value / factor() narrowed to its
\* 64-bit result, and the inverse is value * factor() in 128-bit arithmetic,
\* which panics on overflow in a build that checks it and wraps otherwise.
C3_FactorDividesByU64Max ==
    /\ Converted("forward") \/ Converted("inverse")
          => IsFactorOf(cret.factor, CellValue(cell))
    /\ Converted("forward") => cret.val = (cx \div cret.factor) % U64Mod
    /\ Converted("inverse")
          => /\ cret.val = (cx * cret.factor) % U128Mod
             /\ cx * cret.factor > U128Max => ~overflowChecks
    /\ (cop = "inverse" /\ cret.tag = "panic") => overflowChecks

\* C3 witness: the cache holds twice u64::max_value() and the factor is 2,
\* where issuance / 2^64 is 1.
C3_Witness ==
    /\ CellValue(cell) = 2 * U64Max
    /\ Converted("inverse")
    /\ cret.factor = 2
    /\ cret.val = 2 * cx
    /\ cx > 0

\* C8 (as claimed): x / factor() never exceeds u64::max_value() and the
\* forward conversion returns exactly that quotient.
C8_QuotientFits ==
    Converted("forward")
       => /\ cx \div cret.factor <= U64Max
          /\ cret.val = cx \div cret.factor

\* C8 (amended): the result of the forward conversion never exceeds
\* u64::max_value() because it is the quotient x / factor() narrowed to 64
\* bits: it is congruent to the quotient modulo 2^64 and equals it exactly
\* when the quotient is at most u64::max_value(); a larger quotient loses its
\* high bits.
C8_ResultIsNarrowedQuotient ==
    Converted("forward")
       => LET q == cx \div cret.factor IN
          /\ cret.val \in 0..U64Max
          /\ (q - cret.val) % U64Mod = 0
          /\ (cret.val = q) <=> (q <= U64Max)

\* C8 witness: a forward conversion whose quotient exceeds u64::max_value()
\* returned a different, smaller value.
C8_Witness ==
    /\ Converted("forward")
    /\ cx \div cret.factor > U64Max
    /\ cret.val < cx \div cret.factor

\* C9 (as claimed): once the cache holds a refreshed issuance I, every balance
\* x <= I converts forward to exactly x / factor(), and every v that fits in
\* 64 bits converts back to v * factor() without overflow and without
\* exceeding max(I, v).
C9_BalancesUpToIssuanceFit ==
    primed =>
       /\ (cop = "forward" /\ cx <= CellValue(cell))
             => Converted("forward") /\ cret.val = cx \div cret.factor
       /\ (cop = "inverse" /\ cx <= U64Max)
             => /\ Converted("inverse")
                /\ cret.val = cx * cret.factor
                /\ cret.val <= Max(CellValue(cell), cx)

Called(op) == fop.op = op /\ fpc \in {"returned", "panicked"}

\* The bytes of the text, as String::from_utf8 accepts them.
RECURSIVE Utf8Bytes(_)
Utf8Bytes(chars) ==
    IF chars = <<>> THEN <<>>
    ELSE (IF chars[1] < 128 THEN <<chars[1]>>
          ELSE <<192 + (chars[1] \div 64), 128 + (chars[1] % 64)>>)
         \o Utf8Bytes(Tail(chars))

\* A string result that is the text the bytes are the UTF-8 encoding of.
IsTextOf(result, bytes) ==
    /\ result.kind = "string"
    /\ \A i \in 1..Len(result.chars) : result.chars[i] \in 0..2047
    /\ Utf8Bytes(result.chars) = bytes

\* C5: get_account_data_at reads System/Account under the hash-with-key
\* hasher for the account; when the read finds nothing it panics, and when it
\* returns it returns the record the read decoded, unchanged.
C5_AbsentAccountIsFatal ==
    Called("get_account_data_at") =>
       /\ fsent = <<StateRead(MapKey("Blake2_128Concat", "System", "Account",
                                     fop.arg), fop.at)>>
       /\ fresp = Absent => fpc = "panicked"
       /\ fpc = "returned" => fresp.tag = "bytes" /\ fret.val = fresp.val

\* C5 witness: the read of an account found nothing and the call panicked.
C5_Witness ==
    /\ Called("get_account_data_at")
    /\ fresp = Absent
    /\ fpc = "panicked"

\* C6: get_identity returns "NO_IDENT" for no registration, "OPAQUE_IDENTITY"
\* for a display that is not raw, and the text of the raw bytes otherwise;
\* get_nick returns "[NO_NICK]" for no record and the text of the name
\* otherwise; neither returns anything else.
C6_NameSentinels ==
    /\ (Called("get_identity") /\ fpc = "returned") =>
          CASE fresp = Absent -> fret.val = Str(NO_IDENT)
            [] fresp.tag = "bytes" /\ fresp.val.display.variant = "Raw" ->
                 IsTextOf(fret.val, fresp.val.display.bytes)
            [] fresp.tag = "bytes" /\ fresp.val.display.variant # "Raw" ->
                 fret.val = Str(OPAQUE_IDENTITY)
            [] OTHER -> FALSE
    /\ (Called("get_nick") /\ fpc = "returned") =>
          CASE fresp = Absent -> fret.val = Str(NO_NICK)
            [] fresp.tag = "bytes" -> IsTextOf(fret.val, fresp.val.name)
            [] OTHER -> FALSE

\* C6 witness: a registration whose display is a hash gave "OPAQUE_IDENTITY".
C6_Witness ==
    /\ Called("get_identity")
    /\ fpc = "returned"
    /\ fresp.tag = "bytes"
    /\ fresp.val.display.variant = "Sha256"
    /\ fret.val = Str(OPAQUE_IDENTITY)

\* C7 (as claimed): each of the six non-storage operations sends exactly one
\* request and never returns an absent result: an absent response is fatal.
C7_AbsentAlwaysFatal ==
    (fop.op \in RpcOps /\ fpc \in {"returned", "panicked"}) =>
       /\ Len(fsent) = 1
       /\ fresp = RpcOk(NoneV) => fpc = "panicked"
       /\ fpc = "returned" => fret.val.kind # "none"

\* C7 (amended): each of the six sends exactly one request; finalized head,
\* block, runtime version, metadata and fee estimate treat an absent response
\* as fatal and never return an absent result, while got_storage_size returns
\* an Option and hands an absent response on to its caller as None (only a
\* failed request is fatal to it).
C7_AbsentFatalButForStorageSize ==
    (fop.op \in RpcOps /\ fpc \in {"returned", "panicked"}) =>
       /\ Len(fsent) = 1
       /\ fresp = RpcErr => fpc = "panicked"
       /\ IF fop.op = "got_storage_size"
          THEN fresp.tag = "ok" => fpc = "returned" /\ fret.val = fresp.data
          ELSE /\ fresp = RpcOk(NoneV) => fpc = "panicked"
               /\ fpc = "returned" => fret.val.kind # "none"

\* C7 witness: got_storage_size received an absent response and returned None.
C7_Witness ==
    /\ Called("got_storage_size")
    /\ fresp = RpcOk(NoneV)
    /\ fpc = "returned"
    /\ fret.val = NoneV

\* ------------------------------------------------------- specifications
Init ==
    /\ chain \in [Hash -> StoredIssuance]
    /\ CellInit
    /\ ConvIdle
    /\ overflowChecks = TRUE
    /\ FacadeIdle

Next ==
    \/ \E r \in Refreshers, at \in Hash : SetCall(r, at)
    \/ \E r \in Refreshers : SetQueryReturns(r)
    \/ \E r \in Refreshers : SetBorrowMut(r)
    \/ \E r \in Refreshers, half \in Halves : SetStore(r, half)
    \/ \E r \in Refreshers : SetRelease(r)
    \/ \E g \in Readers : GetCall(g)
    \/ \E g \in Readers : GetBorrow(g)
    \/ \E g \in Readers, half \in Halves : GetLoad(g, half)
    \/ \E g \in Readers : GetReturn(g)

Spec == Init /\ [][Next]_vars

InitConv ==
    /\ chain \in ConvChains
    /\ CellInit
    /\ ConvIdle
    /\ overflowChecks \in BOOLEAN
    /\ FacadeIdle

NextConv ==
    \/ \E at \in Hash : IssuanceSetAlone(at)
    \/ \E x \in BalanceVals : ConvertForward(x)
    \/ \E x \in BalanceVals : ConvertInverse(x)

SpecConv == InitConv /\ [][NextConv]_vars

InitFacade ==
    /\ chain = [h \in Hash |-> Absent]
    /\ CellInit
    /\ ConvIdle
    /\ overflowChecks = TRUE
    /\ FacadeIdle

NextFacade ==
    \/ \E op \in FacadeOps, arg \in Args, at \in Hash : FacadeCall(op, arg, at)
    \/ \E resp \in Responses(fop.op) : FacadeResume(resp)

SpecFacade == InitFacade /\ [][NextFacade]_vars

====
